---- MODULE Spec2Model ----
(***************************************************************************)
(* SpectraCloud numeric pipeline: prototype classifier, preprocessor,      *)
(* feature extractor, prototype builder and the prototype store / analyze  *)
(* endpoint, modelled from backend/app.                                    *)
(*                                                                         *)
(* Numbers.  In the preprocessor intensities and wavenumbers are integers   *)
(* counting a fixed quantum of 1e-13, so that the absolute thresholds of   *)
(* the code (1e-12 in normalize_minmax, atol 1e-8 and rtol 1e-5 in         *)
(* np.allclose) are integers.  Quotients and square roots that the code    *)
(* computes in floating point are kept exact, as num/den pairs.  Labels    *)
(* are integers: the rank of the label string in ascending order.          *)
(***************************************************************************)
EXTENDS Integers, Sequences, FiniteSets, TLC

VARIABLES
    feature_vec,    \* predict_with_prototypes: the feature vector argument
    prototypes,     \* predict_with_prototypes: the dict, as its items in insertion order
    prediction,     \* predict_with_prototypes: what the call produced
    spectrum,       \* preprocessor input: path, x, y, crop
    conditioned,    \* preprocessor outcome
    y_bc,           \* minmax normalization: the baseline-corrected signal
    y_norm,         \* minmax normalization: outcome of both paths
    feat_in,        \* extract_raman_features input
    feats,          \* extract_raman_features outcome
    dataset,        \* build_prototypes: (X_feat, y) of load_split_features
    payload,        \* build_prototypes outcome
    proto_file,     \* prototypes.json on disk (or absent)
    out,            \* load_prototypes: the local mapping being built
    PROTOTYPES,     \* prototypes_store.PROTOTYPES (module global)
    main_PROTOTYPES,\* main.PROTOTYPES (name bound by the import in main.py)
    boot,           \* position of the import-time code
    requests,       \* the analyze requests in flight
    response        \* analyze: the response to a single upload

vars == <<feature_vec, prototypes, prediction, spectrum, conditioned, y_bc, y_norm,
          feat_in, feats, dataset, payload, proto_file, out, PROTOTYPES,
          main_PROTOTYPES, boot, requests, response>>

classifyVars == <<feature_vec, prototypes, prediction, response>>
preprocessVars == <<spectrum, conditioned>>
normalizeVars == <<y_bc, y_norm>>
featureVars == <<feat_in, feats>>
buildVars == <<dataset, payload>>
serviceVars == <<proto_file, out, PROTOTYPES, main_PROTOTYPES, boot, requests>>

None == "None"

(***************************************************************************)
(* Helpers on sequences of numbers                                         *)
(***************************************************************************)
RECURSIVE SumSeq(_)
SumSeq(s) == IF s = <<>> THEN 0 ELSE Head(s) + SumSeq(Tail(s))

Abs(a) == IF a < 0 THEN -a ELSE a

Sign(a) == IF a > 0 THEN 1 ELSE IF a < 0 THEN -1 ELSE 0

Dot(a, b) == SumSeq([i \in 1..Len(a) |-> a[i] * b[i]])

SeqMin(s) == CHOOSE m \in {s[i] : i \in 1..Len(s)} : \A j \in 1..Len(s) : m <= s[j]

SeqMax(s) == CHOOSE m \in {s[i] : i \in 1..Len(s)} : \A j \in 1..Len(s) : m >= s[j]

(***************************************************************************)
(* ml/prototypes.py : cosine similarity and the prototype classifier       *)
(***************************************************************************)
\* A cosine is kept exact as sign(d)*d^2 / (|a|^2 |b|^2): a strictly increasing
\* function of the float the code returns, so maxima and exact ties are the same.
\* l2_normalize of the zero vector is the zero vector (0 / (0 + eps)), cosine 0.
l2_norm_sq(v) == Dot(v, v)

cosine_sim(a, b) ==
    IF l2_norm_sq(a) = 0 \/ l2_norm_sq(b) = 0
    THEN [num |-> 0, den |-> 1]
    ELSE [num |-> Sign(Dot(a, b)) * Dot(a, b) * Dot(a, b),
          den |-> l2_norm_sq(a) * l2_norm_sq(b)]

ScoreLess(s, t) == s.num * t.den < t.num * s.den

ScoreEq(s, t) == s.num * t.den = t.num * s.den

\* np.dot of two 1-D arrays of unequal length raises ValueError
DotRaises(a, b) == Len(a) # Len(b)

\* the loop of lines 43-45: index of the first prototype np.dot raises on, 0 if none
FirstMismatch(fv, protos) ==
    IF \E i \in 1..Len(protos) : DotRaises(fv, protos[i].vec)
    THEN CHOOSE i \in 1..Len(protos) :
            /\ DotRaises(fv, protos[i].vec)
            /\ \A j \in 1..(i - 1) : ~DotRaises(fv, protos[j].vec)
    ELSE 0

\* max(scores, key=scores.get): the first key, in the dict's iteration order,
\* whose value no other key exceeds
ArgMax(protos, sc) ==
    CHOOSE i \in 1..Len(protos) :
        /\ \A j \in 1..Len(protos) : ~ScoreLess(sc[i], sc[j])
        /\ \A j \in 1..(i - 1) : ScoreLess(sc[j], sc[i])

\* None for a label, a score, a score table (main.py lines 85-87)
NoLabel == 0

NoScore == [num |-> 0, den |-> 0]

NoScores == <<>>

NoPrediction(status) ==
    [status |-> status, best_label |-> NoLabel, best_score |-> NoScore,
     scores |-> NoScores]

\* the returned tuple (best_label, best_score, scores); scores keeps the dict's order
Scored(protos, sc, b) ==
    [status |-> "ok", best_label |-> protos[b].label, best_score |-> sc[b],
     scores |-> [i \in 1..Len(protos) |-> [label |-> protos[i].label, score |-> sc[i]]]]

\* mutant: an empty mapping yields a default label instead of raising
predict_default_label(fv, protos) ==
    IF Len(protos) = 0
    THEN [status |-> "ok", best_label |-> 1, best_score |-> [num |-> 0, den |-> 1],
          scores |-> <<>>]
    ELSE IF FirstMismatch(fv, protos) # 0 THEN NoPrediction("DimensionMismatch")
    ELSE LET sc == [i \in 1..Len(protos) |-> cosine_sim(fv, protos[i].vec)]
         IN Scored(protos, sc, ArgMax(protos, sc))

\* mutant: vectors of unequal length are scored over their common prefix
predict_truncating(fv, protos) ==
    IF Len(protos) = 0 THEN NoPrediction("EmptyPrototypeSet")
    ELSE LET cut(v, n) == [i \in 1..n |-> v[i]]
             m(i) == IF Len(fv) < Len(protos[i].vec) THEN Len(fv) ELSE Len(protos[i].vec)
             sc == [i \in 1..Len(protos) |->
                      cosine_sim(cut(fv, m(i)), cut(protos[i].vec, m(i)))]
         IN Scored(protos, sc, ArgMax(protos, sc))

predict_with_prototypes(fv, protos) ==
    IF Len(protos) = 0 THEN NoPrediction("EmptyPrototypeSet")
    ELSE IF FirstMismatch(fv, protos) # 0 THEN NoPrediction("DimensionMismatch")
    ELSE LET sc == [i \in 1..Len(protos) |-> cosine_sim(fv, protos[i].vec)]
         IN Scored(protos, sc, ArgMax(protos, sc))

(***************************************************************************)
(* main.py : the analyze endpoint                                          *)
(***************************************************************************)
\* The first precondition of the handler that the upload violates, in the order
\* the handler tests them; "none" when the upload passes them all.
UploadFaults == {"csv_name", "image_name", "empty_body", "columns", "rows",
                 "preprocess", "none"}

Http400(detail) ==
    [status |-> "error", http |-> 400, detail |-> detail, prediction |-> None,
     label |-> NoLabel,
     prototype_score |-> NoScore, all_scores |-> NoScores, confidence |-> None]

\* confidence = max(0.50, min(0.95, (score + 1) / 2)): 0.50 up to cosine 0,
\* 0.95 from cosine 0.9 (signed square 81/100), the linear map in between
ConfidenceOf(score) ==
    IF score.num <= 0 THEN "0.50"
    ELSE IF score.num * 100 >= 81 * score.den THEN "0.95"
    ELSE "linear"

\* The handler from its first check to its return; ValueError becomes HTTP 400.
analyze(fault, features, PROTOS) ==
    IF fault = "csv_name" THEN Http400("Spectrum must be a .csv file")
    ELSE IF fault = "image_name" THEN Http400("Image must be PNG/JPG")
    ELSE IF fault = "empty_body" THEN Http400("Spectrum CSV is empty")
    ELSE IF fault = "columns" THEN Http400("CSV must include columns")
    ELSE IF fault = "rows" THEN Http400("Spectrum CSV must contain at least 20 rows")
    ELSE IF fault = "preprocess" THEN Http400("preprocess_spectrum ValueError")
    ELSE IF Len(PROTOS) # 0
         THEN LET p == predict_with_prototypes(features, PROTOS)
              IN IF p.status # "ok" THEN Http400(p.status)
                 ELSE [status |-> "success", http |-> 200, detail |-> "scored",
                       prediction |-> "normal",
                       label |-> p.best_label, prototype_score |-> p.best_score,
                       all_scores |-> p.scores,
                       confidence |-> ConfidenceOf(p.best_score)]
         ELSE [status |-> "success", http |-> 200, detail |-> "not scored",
               prediction |-> "normal",
               label |-> NoLabel, prototype_score |-> NoScore, all_scores |-> NoScores,
               confidence |-> "snr_fallback"]

(***************************************************************************)
(* pipeline/raman_preprocess_array.py and pipeline/raman_preprocess.py     *)
(***************************************************************************)
\* a non-finite value (+inf): above every finite value of the model
Inf == 1000000000

IsFinite(v) == v < Inf

AllFinite(s) == \A i \in 1..Len(s) : IsFinite(s[i])

MinPoints == 20       \* raman_preprocess_array.py: x.shape[0] < 20
AtolQ == 100000       \* np.allclose atol = 1e-8, in quanta
RtolInv == 100000     \* np.allclose rtol = 1e-5, as its inverse
TinyRange == 10       \* normalize_minmax: 1e-12, in quanta

\* np.argsort(x): position of x[i] in the sorted order.  The default sort is not
\* stable, so equal keys come out in either order.
SortRank(x, stable, i) ==
    1 + Cardinality({j \in 1..Len(x) : x[j] < x[i]})
      + Cardinality({j \in 1..Len(x) :
                        x[j] = x[i] /\ (IF stable THEN j < i ELSE j > i)})

argsort(x, stable) ==
    [k \in 1..Len(x) |-> CHOOSE i \in 1..Len(x) : SortRank(x, stable, i) = k]

Take(s, idx) == [k \in 1..Len(idx) |-> s[idx[k]]]

\* mask = (x >= lo) & (x <= hi)
InWindow(v, crop) == v >= crop.lo /\ v <= crop.hi

MaskIdx(x, crop) == SelectSeq([i \in 1..Len(x) |-> i], LAMBDA i : InWindow(x[i], crop))

\* mutant: the fallback is taken at exactly 20 points too
CropApplies_strict(count) == count > MinPoints

\* if mask.sum() >= 20
CropApplies(count) == count >= MinPoints

\* _moving_average: window forced to an odd value >= 3, edge padding,
\* np.convolve(..., mode="valid"); the float quotient is rounded to the quantum
OddWindow(window) ==
    LET w == IF window < 3 THEN 3 ELSE window
    IN IF w % 2 = 0 THEN w + 1 ELSE w

Clamp(i, n) == IF i < 1 THEN 1 ELSE IF i > n THEN n ELSE i

moving_average_array(y, window) ==
    LET w == OddWindow(window)
        pad == w \div 2
    IN [i \in 1..Len(y) |->
          SumSeq([d \in 1..w |-> y[Clamp(i + d - 1 - pad, Len(y))]]) \div w]

\* moving_average of the CSV path: np.convolve(y, kernel, mode="same"), which pads
\* with zeros; for len(y) >= window the result has len(y) values
moving_average(y, window) ==
    IF window < 3 THEN y
    ELSE LET w == IF window % 2 = 0 THEN window + 1 ELSE window
             pad == w \div 2
         IN [i \in 1..Len(y) |->
               SumSeq([d \in 1..w |->
                          IF i + d - 1 - pad < 1 \/ i + d - 1 - pad > Len(y) THEN 0
                          ELSE y[i + d - 1 - pad]]) \div w]

\* np.polyval(np.polyfit(x, y, deg), x) is library code: some polynomial trend of
\* len(y) values.  Two stand for it: the mean level and the line through the ends.
PolyBaselines(y) ==
    LET n == Len(y)
    IN {[i \in 1..n |-> SumSeq(y) \div n],
        [i \in 1..n |-> IF n = 1 THEN y[1]
                        ELSE y[1] + ((y[n] - y[1]) * (i - 1)) \div (n - 1)]}

Minus(y, b) == [i \in 1..Len(y) |-> y[i] - b[i]]

\* A processed signal: value i is num[i]/den, a pure ratio after a division by the
\* range ("ratio"), else a count of quanta ("quantum"); "nan" when every value is NaN.
Signal(unit, num, den) == [unit |-> unit, num |-> num, den |-> den]

\* array path, lines 67-70
minmax_array(y) ==
    LET mn == SeqMin(y)
        mx == SeqMax(y)
    IN IF mx - mn # 0
       THEN Signal("ratio", [i \in 1..Len(y) |-> y[i] - mn], mx - mn)
       ELSE Signal("quantum", [i \in 1..Len(y) |-> y[i] - mn], 1)

\* CSV path, lines 42-46
normalize_minmax(y) ==
    LET ymin == SeqMin(y)
        ymax == SeqMax(y)
    IN IF ymax - ymin < TinyRange
       THEN Signal("quantum", y, 1)
       ELSE Signal("ratio", [i \in 1..Len(y) |-> y[i] - ymin], ymax - ymin)

\* np.allclose(y_raw, y_raw[0]): |y - y0| <= atol + rtol * |y0| for every y
allclose_first(y) ==
    \A i \in 1..Len(y) : Abs(y[i] - y[1]) <= AtolQ + (Abs(y[1]) \div RtolInv)

\* np.any(np.diff(x) == 0)
AdjacentDuplicate(x) == \E i \in 1..(Len(x) - 1) : x[i + 1] = x[i]

Rejected(kind, detail) ==
    [status |-> kind, detail |-> detail, x |-> <<>>, y_raw |-> <<>>,
     y_processed |-> Signal("nan", <<>>, 1)]

Conditioned(x, y_raw, y_processed) ==
    [status |-> "ok", detail |-> "", x |-> x, y_raw |-> y_raw,
     y_processed |-> y_processed]

\* The outcomes of preprocess_spectrum_array(x, y, crop, smooth_window, normalize):
\* a set, for the order of equal keys and the library's fit are not determined.
preprocess_spectrum_array(sp) ==
    IF Len(sp.x) # Len(sp.y)
    THEN {Rejected("ValidationError", "x and y length mismatch")}
    ELSE IF Len(sp.x) < MinPoints
    THEN {Rejected("ValidationError", "Spectrum must contain at least 20 points")}
    ELSE UNION {
        LET idx  == argsort(sp.x, stable)
            xs   == Take(sp.x, idx)
            ys   == Take(sp.y, idx)
            keep == MaskIdx(xs, sp.crop)
            crop == sp.crop.on /\ CropApplies(Len(keep))
            x    == IF crop THEN Take(xs, keep) ELSE xs
            y_raw == IF crop THEN Take(ys, keep) ELSE ys
        IN IF ~(AllFinite(x) /\ AllFinite(y_raw))
           THEN \* np.polyfit on non-finite data: LinAlgError, or NaN coefficients
                IF sp.normalize \in {"minmax", "none"}
                THEN {Rejected("LinAlgError", "SVD did not converge"),
                      Conditioned(x, y_raw, Signal("nan", [i \in 1..Len(x) |-> 0], 1))}
                ELSE {Rejected("LinAlgError", "SVD did not converge"),
                      Rejected("ConfigurationError", "normalize must be one of")}
           ELSE {IF sp.normalize = "minmax"
                   THEN Conditioned(x, y_raw, minmax_array(Minus(y_smooth, b)))
                 ELSE IF sp.normalize = "none"
                   THEN Conditioned(x, y_raw, Signal("quantum", Minus(y_smooth, b), 1))
                 ELSE Rejected("ConfigurationError", "normalize must be one of")
                 : b \in PolyBaselines(moving_average_array(y_raw, sp.smooth_window)),
                   y_smooth \in {moving_average_array(y_raw, sp.smooth_window)}}
        : stable \in BOOLEAN}

\* The outcomes of preprocess_spectrum(df) on the frame's columns x and y
preprocess_spectrum(sp) ==
    IF ~(AllFinite(sp.x) /\ AllFinite(sp.y))
    THEN {Rejected("ValidationError", "Spectrum contains NaN or Inf values")}
    ELSE IF allclose_first(sp.y)
    THEN {Rejected("ValidationError", "Spectrum intensity is constant (no signal)")}
    ELSE IF AdjacentDuplicate(sp.x)
    THEN {Rejected("ValidationError", "Spectrum x-axis contains duplicate values")}
    ELSE {Conditioned(sp.x, sp.y, normalize_minmax(Minus(moving_average(sp.y, 11), b)))
          : b \in PolyBaselines(moving_average(sp.y, 11))}

(***************************************************************************)
(* ml/features.py : extract_raman_features                                 *)
(***************************************************************************)
MinFeatLen == 10      \* x.size < 10 raises

\* A feature value: num/den, or its square root when root is TRUE
Val(num, den) == [num |-> num, den |-> den, root |-> FALSE]

Root(num, den) == [num |-> num, den |-> den, root |-> TRUE]

Zero == Val(0, 1)

Reverse(s) == [i \in 1..Len(s) |-> s[Len(s) + 1 - i]]

Sorted(s) == Take(s, argsort(s, TRUE))

\* np.percentile(y, q) for q = 25 * quarter, linear interpolation, times 4
Percentile4(y, quarter) ==
    LET srt == Sorted(y)
        h == (Len(y) - 1) * quarter
        f == h \div 4
        r == h % 4
    IN IF r = 0 THEN 4 * srt[f + 1]
       ELSE 4 * srt[f + 1] + r * (srt[f + 2] - srt[f + 1])

\* sum of squared deviations from the mean, times n^2
Dev2(v) == SumSeq([i \in 1..Len(v) |-> (Len(v) * v[i] - SumSeq(v)) * (Len(v) * v[i] - SumSeq(v))])

\* np.std(v) = sqrt(Dev2 / n^3)
Std(v) == Root(Dev2(v), Len(v) * Len(v) * Len(v))

\* the 17 scalars of lines 35-61, peak_count last
Scalars(x, y, peak_count) ==
    LET n == Len(y)
        dy == [i \in 1..(n - 1) |-> y[i + 1] - y[i]]
        ady == [i \in 1..(n - 1) |-> Abs(dy[i])]
        sg == [i \in 1..(n - 1) |-> Sign(dy[i])]
        energy == SumSeq([i \in 1..n |-> y[i] * y[i]])
        l1 == SumSeq([i \in 1..n |-> Abs(y[i])])
        y_shift == [i \in 1..n |-> y[i] - SeqMin(y)]
        w_sum == SumSeq(y_shift)
        wx == SumSeq([i \in 1..n |-> x[i] * y_shift[i]])
    IN << Val(SeqMin(y), 1),
          Val(SeqMax(y), 1),
          Val(SumSeq(y), n),
          Std(y),
          Val(Percentile4(y, 2), 4),
          Val(Percentile4(y, 3) - Percentile4(y, 1), 4),
          Val(SumSeq(ady), n - 1),
          Std(ady),
          Val(Cardinality({i \in 1..(n - 2) : sg[i + 1] # sg[i]}), 1),
          Val(SumSeq([i \in 1..(n - 1) |-> (x[i + 1] - x[i]) * (y[i] + y[i + 1])]), 2),
          Val(energy, 1),
          Val(l1, 1),
          Root(energy, 1),
          IF energy # 0 THEN Root(l1 * l1, energy) ELSE Zero,
          IF w_sum > 0 THEN Val(wx, w_sum) ELSE Val(SumSeq(x), n),
          IF w_sum > 0
             THEN Root(SumSeq([i \in 1..n |->
                          (x[i] * w_sum - wx) * (x[i] * w_sum - wx) * y_shift[i]]),
                       w_sum * w_sum * w_sum)
             ELSE Std(x),
          Val(peak_count, 1) >>

\* scipy.signal.find_peaks: a local maximum is the middle sample of a run of equal
\* values that is strictly above both of its neighbours
PlateauPeak(y, l, r) ==
    /\ 1 < l /\ l <= r /\ r < Len(y)
    /\ \A j \in l..r : y[j] = y[l]
    /\ y[l - 1] < y[l]
    /\ y[r + 1] < y[r]

LocalMaxima(y) ==
    {(l + r) \div 2 : <<l, r>> \in {lr \in (1..Len(y)) \X (1..Len(y)) : PlateauPeak(y, lr[1], lr[2])}}

\* prominence of the peak at p: its height above the higher of the lowest points
\* on either side, each side reaching out while the signal stays at or below y[p]
LeftBase(y, p) ==
    SeqMin([k \in 1..(p + 1 - (CHOOSE a \in 1..p :
                                  /\ \A j \in a..p : y[j] <= y[p]
                                  /\ (a > 1 => y[a - 1] > y[p]))) |-> y[p + 1 - k]])

RightBase(y, p) ==
    SeqMin([k \in 1..((CHOOSE b \in p..Len(y) :
                          /\ \A j \in p..b : y[j] <= y[p]
                          /\ (b < Len(y) => y[b + 1] > y[p])) - p + 1) |-> y[p + k - 1]])

Prominence(y, p) ==
    y[p] - (IF LeftBase(y, p) > RightBase(y, p) THEN LeftBase(y, p) ELSE RightBase(y, p))

RECURSIVE Ascending(_)
Ascending(S) ==
    IF S = {} THEN <<>>
    ELSE LET m == CHOOSE v \in S : \A w \in S : v <= w
         IN <<m>> \o Ascending(S \ {m})

\* find_peaks(y, prominence=pct/100 * range): the indices, ascending, and their
\* prominences in the same order
find_peaks(y, pct) ==
    LET range == IF SeqMax(y) # SeqMin(y) THEN SeqMax(y) - SeqMin(y) ELSE 1
        peaks == Ascending({p \in LocalMaxima(y) : 100 * Prominence(y, p) >= pct * range})
    IN [peaks |-> peaks,
        prominences |-> [i \in 1..Len(peaks) |-> Prominence(y, peaks[i])]]

\* mutant: a block holds only the peaks found, without the zero fill
PeakBlock_unpadded(vals, k, max_peaks) == [i \in 1..k |-> Val(vals[i], 1)]

\* np.zeros(max_peaks) with the first k slots assigned
PeakBlock(vals, k, max_peaks) ==
    [i \in 1..max_peaks |-> IF i <= k THEN Val(vals[i], 1) ELSE Zero]

FeatError == [status |-> "ValidationError", vec |-> <<>>]

\* The outcomes of extract_raman_features(x, y, max_peaks, peak_prominence); scipy
\* tells whether find_peaks could be imported.  argsort is not stable, so peaks of
\* equal height rank in either order.
extract_raman_features(in) ==
    IF Len(in.x) # Len(in.y) \/ Len(in.x) < MinFeatLen
    THEN {FeatError}
    ELSE IF ~in.scipy
    THEN {[status |-> "ok",
           vec |-> Scalars(in.x, in.y, 0) \o PeakBlock(<<>>, 0, in.max_peaks)
                   \o PeakBlock(<<>>, 0, in.max_peaks) \o PeakBlock(<<>>, 0, in.max_peaks)]}
    ELSE {LET found == find_peaks(in.y, in.peak_prominence)
              heights == Take(in.y, found.peaks)
              order == Reverse(argsort(heights, stable))
              peaks == Take(found.peaks, order)
              k == IF in.max_peaks < Len(peaks) THEN in.max_peaks ELSE Len(peaks)
          IN [status |-> "ok",
              vec |-> Scalars(in.x, in.y, Len(found.peaks))
                      \o PeakBlock(Take(in.x, peaks), k, in.max_peaks)
                      \o PeakBlock(Take(in.y, peaks), k, in.max_peaks)
                      \o PeakBlock(found.prominences, k, in.max_peaks)]
          : stable \in BOOLEAN}

(***************************************************************************)
(* ml/build_prototypes.py and build_class_prototypes of ml/prototypes.py   *)
(***************************************************************************)
\* A real vector: component i is num[i] / (den * sqrt(rad))
RVec(num, den, rad) == [num |-> num, den |-> den, rad |-> rad]

RowsOf(ds, lab) == SelectSeq([i \in 1..Len(ds.y) |-> i], LAMBDA i : ds.y[i] = lab)

VecSum(ds, idx, dim) ==
    [c \in 1..dim |-> SumSeq([k \in 1..Len(idx) |-> ds.X_feat[idx[k]][c]])]

\* np.mean(X_feat[idx], axis=0)
class_mean(ds, idx, dim) == RVec(VecSum(ds, idx, dim), Len(idx), 1)

ISqrt(q) == CHOOSE r \in 0..q : r * r = q

\* mutant: every sample is normalized, the normalized samples are averaged and the
\* average is stored as it is (rows of the model have integer norms dividing 10)
prototype_of_per_sample(ds, idx, dim) ==
    RVec([c \in 1..dim |->
            SumSeq([k \in 1..Len(idx) |->
                      IF l2_norm_sq(ds.X_feat[idx[k]]) = 0 THEN 0
                      ELSE ds.X_feat[idx[k]][c]
                             * (10 \div ISqrt(l2_norm_sq(ds.X_feat[idx[k]])))])],
         10 * Len(idx), 1)

\* _l2_normalize(v) = v / (norm + eps) of a mean v = sum/n: its norm is
\* sqrt(sum.sum)/n, so the quotient is sum / sqrt(sum.sum); the zero vector stays
\* zero; eps = 1e-12 is below the model's resolution.
l2_normalize_mean(m) ==
    IF l2_norm_sq(m.num) = 0 THEN RVec(m.num, 1, 1)
    ELSE RVec(m.num, 1, l2_norm_sq(m.num))

\* lines 35-36: class_mean, then _l2_normalize(class_mean)
prototype_of(ds, idx, dim) == l2_normalize_mean(class_mean(ds, idx, dim))

\* np.unique(y): the labels that occur, ascending
unique(y) == Ascending({y[i] : i \in 1..Len(y)})

\* keys of a dict built by grouping the samples: labels in order of first occurrence
RECURSIVE FirstSeen(_)
FirstSeen(y) ==
    IF y = <<>> THEN <<>>
    ELSE <<Head(y)>> \o FirstSeen(SelectSeq(Tail(y), LAMBDA l : l # Head(y)))

build_prototypes(ds) ==
    IF Len(ds.X_feat) = 0
    THEN [status |-> "RuntimeError", feature_dim |-> 0, num_samples |-> 0,
          labels |-> <<>>, prototypes |-> <<>>]
    ELSE LET labels == unique(ds.y)
             dim == Len(ds.X_feat[1])
         IN [status |-> "ok", feature_dim |-> dim, num_samples |-> Len(ds.X_feat),
             labels |-> labels,
             prototypes |-> [k \in 1..Len(labels) |->
                               [label |-> labels[k],
                                vec |-> prototype_of(ds, RowsOf(ds, labels[k]), dim)]]]

\* features_by_label is the dataset grouped by label
build_class_prototypes(ds) ==
    LET labels == FirstSeen(ds.y)
    IN IF \E k \in 1..Len(labels) : Len(RowsOf(ds, labels[k])) = 0
       THEN [status |-> "ValueError", prototypes |-> <<>>]
       ELSE [status |-> "ok",
             prototypes |-> [k \in 1..Len(labels) |->
                               [label |-> labels[k],
                                vec |-> prototype_of(ds, RowsOf(ds, labels[k]),
                                                     Len(ds.X_feat[1]))]]]

(***************************************************************************)
(* Idle values of the components a specification does not run              *)
(***************************************************************************)
Idle == [status |-> "idle"]

IdleClassify ==
    /\ feature_vec = <<>> /\ prototypes = <<>> /\ prediction = Idle /\ response = Idle

IdlePreprocess == spectrum = Idle /\ conditioned = Idle

IdleNormalize == y_bc = <<>> /\ y_norm = Idle

IdleFeatures == feat_in = Idle /\ feats = Idle

IdleBuild == dataset = Idle /\ payload = Idle

IdleService ==
    /\ proto_file = Idle /\ out = <<>> /\ PROTOTYPES = <<>> /\ main_PROTOTYPES = <<>>
    /\ boot = "idle" /\ requests = <<>>

(***************************************************************************)
(* SpecClassify: one call of predict_with_prototypes and one analyze       *)
(* request on the same feature vector and prototype mapping                *)
(***************************************************************************)
MaxProtos == 2    \* entries of the prototype mapping

Labels == 1..(MaxProtos + 1)

FeatComp == {-1, 0, 1}

ProtoComp == {0, 1}

\* feature vectors of the common dimension and of a shorter one
FeatVecs == [1..2 -> FeatComp] \cup [1..1 -> FeatComp]

ProtoVecs == [1..2 -> ProtoComp] \cup [1..1 -> ProtoComp]

\* a dict: items in insertion order, keys distinct
ProtoDicts ==
    UNION {{d \in [1..n -> [label : Labels, vec : ProtoVecs]] :
               \A i, j \in 1..n : i # j => d[i].label # d[j].label} : n \in 0..MaxProtos}

InitClassify ==
    /\ feature_vec \in FeatVecs
    /\ prototypes \in ProtoDicts
    /\ prediction = Idle
    /\ response = Idle
    /\ IdlePreprocess /\ IdleNormalize /\ IdleFeatures /\ IdleBuild /\ IdleService

Predict ==
    /\ prediction = Idle
    /\ prediction' = predict_with_prototypes(feature_vec, prototypes)
    /\ UNCHANGED <<feature_vec, prototypes, response>>
    /\ UNCHANGED <<preprocessVars, normalizeVars, featureVars, buildVars, serviceVars>>

Analyze ==
    /\ response = Idle
    /\ \E fault \in UploadFaults :
          response' = [fault |-> fault] @@ analyze(fault, feature_vec, prototypes)
    /\ UNCHANGED <<feature_vec, prototypes, prediction>>
    /\ UNCHANGED <<preprocessVars, normalizeVars, featureVars, buildVars, serviceVars>>

NextClassify == Predict \/ Analyze

SpecClassify == InitClassify /\ [][NextClassify]_vars

Mismatched == \E i \in 1..Len(prototypes) : Len(prototypes[i].vec) # Len(feature_vec)

IsBest(i) ==
    \A j \in 1..Len(prototypes) :
        ~ScoreLess(cosine_sim(feature_vec, prototypes[i].vec),
                   cosine_sim(feature_vec, prototypes[j].vec))

\* C1: on a nonempty prototype set, the returned label has the maximum cosine
\* similarity and, among the labels that tie for the maximum, is the smallest one,
\* whatever the insertion order of the mapping.
C1_TieBreakAscending ==
    prediction.status = "ok" =>
        \E i \in 1..Len(prototypes) :
            /\ prototypes[i].label = prediction.best_label
            /\ IsBest(i)
            /\ \A j \in 1..Len(prototypes) : IsBest(j) => prototypes[i].label <= prototypes[j].label

\* C2 as stated: whenever classification is requested on an empty prototype set,
\* by a direct call or by an analyze request that reaches the scoring block, the
\* outcome is the EmptyPrototypeSet error.
C2_EmptyAlwaysRaises ==
    /\ (prediction # Idle /\ Len(prototypes) = 0) => prediction.status = "EmptyPrototypeSet"
    /\ (response # Idle /\ response.fault = "none" /\ Len(prototypes) = 0) =>
          (response.status = "error" /\ response.detail = "EmptyPrototypeSet")

\* C2 amended: predict_with_prototypes on an empty mapping raises EmptyPrototypeSet and
\* returns no label, score or score table; analyze does not call it on an empty
\* mapping and answers success with label, prototype_score and all_scores all None
\* and the fallback confidence.
C2_EmptyRaisesInCore ==
    /\ (prediction # Idle /\ Len(prototypes) = 0) =>
          /\ prediction.status = "EmptyPrototypeSet"
          /\ prediction.best_label = NoLabel
          /\ prediction.scores = NoScores
    /\ (response # Idle /\ response.fault = "none" /\ Len(prototypes) = 0) =>
          /\ response.status = "success"
          /\ response.label = NoLabel
          /\ response.prototype_score = NoScore
          /\ response.all_scores = NoScores
          /\ response.confidence = "snr_fallback"

C2_Witness ==
    /\ Len(prototypes) = 0
    /\ prediction # Idle /\ prediction.status = "EmptyPrototypeSet"
    /\ response # Idle /\ response.fault = "none"

\* C3: a feature vector whose length differs from a prototype's makes the call fail
\* with DimensionMismatch and return nothing; no call scores vectors of unequal length.
C3_DimensionMismatch ==
    prediction # Idle =>
        /\ (Len(prototypes) # 0 /\ Mismatched) =>
              /\ prediction.status = "DimensionMismatch"
              /\ prediction.best_label = NoLabel
              /\ prediction.scores = NoScores
        /\ prediction.status = "ok" => ~Mismatched

\* the second prototype is the first of unequal length: one score was already computed
C3_Witness ==
    /\ prediction # Idle /\ prediction.status = "DimensionMismatch"
    /\ Len(prototypes) = 2
    /\ Len(prototypes[1].vec) = Len(feature_vec)
    /\ Len(prototypes[2].vec) # Len(feature_vec)

(***************************************************************************)
(* SpecPreprocess: one call of either preprocessing path                   *)
(***************************************************************************)
MaxExtra == 1    \* points beyond the minimum of 20

Lengths == (MinPoints - 1)..(MinPoints + MaxExtra)

XShapes == {"asc", "desc", "dup_adjacent", "dup_apart", "non_finite"}

\* wavenumbers 10, 20, ..., 10n in the given arrangement
XOf(shape, n) ==
    [i \in 1..n |->
        IF shape = "desc" THEN 10 * (n + 1 - i)
        ELSE IF shape = "dup_adjacent" /\ i = 2 THEN 10
        ELSE IF shape = "dup_apart" /\ i = 3 THEN 10
        ELSE IF shape = "non_finite" /\ i = n THEN Inf
        ELSE 10 * i]

YShapes == {<<"const", 1>>, <<"one_tiny", 1>>, <<"one_tiny", 2>>, <<"one_big", 1>>,
            <<"one_big", 2>>, <<"ramp", 1>>, <<"non_finite", 2>>}

\* intensities: constant; constant but for one value, 5e-13 or 2e-8 away; a ramp;
\* one non-finite value
YOf(shape, n) ==
    [i \in 1..n |->
        IF shape[1] = "const" THEN 300000
        ELSE IF shape[1] = "one_tiny" THEN (IF i = shape[2] THEN 300005 ELSE 300000)
        ELSE IF shape[1] = "one_big" THEN (IF i = shape[2] THEN 500000 ELSE 300000)
        ELSE IF shape[1] = "ramp" THEN 200000 * i
        ELSE (IF i = shape[2] THEN Inf ELSE 200000 * i)]

NoCrop == [on |-> FALSE, lo |-> 0, hi |-> 0]

CropWindows ==
    {NoCrop} \cup
    {[on |-> TRUE, lo |-> w[1], hi |-> w[2]] :
        w \in {<<10, 200>>, <<10, 190>>, <<20, 210>>, <<0, 1000>>, <<500, 600>>}}

InitPreprocess ==
    /\ \E n \in Lengths, xs \in XShapes, ys \in YShapes :
          \/ \E m \in {n - 1, n}, c \in CropWindows, w \in {2, 9},
                 nm \in {"minmax", "none", "bogus"} :
                spectrum = [path |-> "array", x |-> XOf(xs, n), y |-> YOf(ys, m),
                            crop |-> c, smooth_window |-> w, normalize |-> nm]
          \/ spectrum = [path |-> "csv", x |-> XOf(xs, n), y |-> YOf(ys, n),
                         crop |-> NoCrop, smooth_window |-> 11, normalize |-> "minmax"]
    /\ conditioned = Idle
    /\ IdleClassify /\ IdleNormalize /\ IdleFeatures /\ IdleBuild /\ IdleService

PreprocessArray ==
    /\ conditioned = Idle
    /\ spectrum.path = "array"
    /\ conditioned' \in preprocess_spectrum_array(spectrum)
    /\ UNCHANGED <<spectrum, classifyVars, normalizeVars, featureVars, buildVars, serviceVars>>

PreprocessCsv ==
    /\ conditioned = Idle
    /\ spectrum.path = "csv"
    /\ conditioned' \in preprocess_spectrum(spectrum)
    /\ UNCHANGED <<spectrum, classifyVars, normalizeVars, featureVars, buildVars, serviceVars>>

NextPreprocess == PreprocessArray \/ PreprocessCsv

SpecPreprocess == InitPreprocess /\ [][NextPreprocess]_vars

LengthMismatch == Len(spectrum.x) # Len(spectrum.y)

NonFinite ==
    \/ \E i \in 1..Len(spectrum.x) : spectrum.x[i] >= Inf
    \/ \E i \in 1..Len(spectrum.y) : spectrum.y[i] >= Inf

ConstantIntensity == \A i \in 1..Len(spectrum.y) : spectrum.y[i] = spectrum.y[1]

DuplicateWavenumber ==
    \E i, j \in 1..Len(spectrum.x) : i # j /\ spectrum.x[i] = spectrum.x[j]

OneDiffering ==
    \E k \in 1..Len(spectrum.y) :
        \E c \in {spectrum.y[i] : i \in 1..Len(spectrum.y)} :
            /\ spectrum.y[k] # c
            /\ \A i \in 1..Len(spectrum.y) : i # k => spectrum.y[i] = c

\* C4: an input with unequal x and y lengths, fewer than 20 points, a non-finite
\* value, all intensities equal or (strict path) a repeated wavenumber is rejected
\* with a ValidationError; 21 finite points with distinct wavenumbers and one
\* differing intensity are accepted.
C4_ValidationRejects ==
    conditioned # Idle =>
        /\ (\/ LengthMismatch
            \/ Len(spectrum.x) < 20
            \/ NonFinite
            \/ ConstantIntensity
            \/ (spectrum.path = "csv" /\ DuplicateWavenumber))
           => conditioned.status = "ValidationError"
        /\ (/\ Len(spectrum.x) = 21 /\ ~LengthMismatch /\ ~NonFinite
            /\ ~DuplicateWavenumber /\ OneDiffering
            /\ spectrum.normalize \in {"minmax", "none"})
           => conditioned.status = "ok"

InCrop == {j \in 1..Len(spectrum.x) :
              spectrum.x[j] >= spectrum.crop.lo /\ spectrum.x[j] <= spectrum.crop.hi}

Occurrences(s, v) == Cardinality({i \in 1..Len(s) : s[i] = v})

\* C5: with a crop window, if at least 20 points lie in it the returned x are exactly
\* those points, all inside the window; if fewer than 20 do, no error is raised and
\* the returned x is the whole input, sorted.
C5_CropOrFallback ==
    (conditioned # Idle /\ spectrum.path = "array" /\ spectrum.crop.on) =>
        /\ (conditioned.status = "ok" /\ Cardinality(InCrop) >= 20) =>
              /\ \A i \in 1..Len(conditioned.x) :
                    /\ conditioned.x[i] >= spectrum.crop.lo
                    /\ conditioned.x[i] <= spectrum.crop.hi
              /\ Len(conditioned.x) = Cardinality(InCrop)
              /\ \A j \in InCrop :
                    Occurrences(conditioned.x, spectrum.x[j])
                        = Cardinality({k \in InCrop : spectrum.x[k] = spectrum.x[j]})
        /\ (conditioned.status = "ok" /\ Cardinality(InCrop) < 20) =>
              /\ Len(conditioned.x) = Len(spectrum.x)
              /\ \A i \in 1..(Len(conditioned.x) - 1) : conditioned.x[i] <= conditioned.x[i + 1]
              /\ \A j \in 1..Len(spectrum.x) :
                    Occurrences(conditioned.x, spectrum.x[j])
                        = Occurrences(spectrum.x, spectrum.x[j])
        /\ (/\ Cardinality(InCrop) < 20 /\ ~LengthMismatch /\ Len(spectrum.x) >= 20
            /\ ~NonFinite /\ spectrum.normalize \in {"minmax", "none"})
           => conditioned.status = "ok"

\* 21 points of which the window holds exactly 20
C5_Witness ==
    /\ conditioned # Idle /\ conditioned.status = "ok"
    /\ spectrum.path = "array" /\ spectrum.crop.on
    /\ Len(spectrum.x) = 21
    /\ Cardinality(InCrop) = 20
    /\ Len(conditioned.x) = 20

\* C6: every returned ConditionedSpectrum has x strictly increasing, y_raw and
\* y_processed as long as x, and y_raw[i] the input intensity measured at x[i].
C6_StrictlyIncreasingAligned ==
    (conditioned # Idle /\ conditioned.status = "ok") =>
        /\ \A i \in 1..(Len(conditioned.x) - 1) : conditioned.x[i] < conditioned.x[i + 1]
        /\ Len(conditioned.y_raw) = Len(conditioned.x)
        /\ Len(conditioned.y_processed.num) = Len(conditioned.x)
        /\ \A i \in 1..Len(conditioned.x) :
              \E j \in 1..Len(spectrum.x) :
                  spectrum.x[j] = conditioned.x[i] /\ spectrum.y[j] = conditioned.y_raw[i]

(***************************************************************************)
(* SpecNormalize: the minmax step of both paths on one baseline-corrected  *)
(* signal                                                                  *)
(***************************************************************************)
MaxLen == 3    \* points of the baseline-corrected signal

\* in quanta of 1e-13: ranges of 0, below 1e-12 and above it occur
NormVals == {-5, 0, 5, 20}

InitNormalize ==
    /\ y_bc \in UNION {[1..n -> NormVals] : n \in 1..MaxLen}
    /\ y_norm = [array |-> Idle, csv |-> Idle]
    /\ IdleClassify /\ IdlePreprocess /\ IdleFeatures /\ IdleBuild /\ IdleService

NormalizeArray ==
    /\ y_norm.array = Idle
    /\ y_norm' = [y_norm EXCEPT !.array = minmax_array(y_bc)]
    /\ UNCHANGED <<y_bc, classifyVars, preprocessVars, featureVars, buildVars, serviceVars>>

NormalizeCsv ==
    /\ y_norm.csv = Idle
    /\ y_norm' = [y_norm EXCEPT !.csv = normalize_minmax(y_bc)]
    /\ UNCHANGED <<y_bc, classifyVars, preprocessVars, featureVars, buildVars, serviceVars>>

NextNormalize == NormalizeArray \/ NormalizeCsv

SpecNormalize == InitNormalize /\ [][NextNormalize]_vars

IsZeroAt(r, i) == r.num[i] = 0

IsOneAt(r, i) == r.unit = "ratio" /\ r.num[i] = r.den

InUnitInterval(r, i) == r.num[i] >= 0 /\ (r.unit = "ratio" => r.num[i] <= r.den)

MinmaxContract(r) ==
    r # Idle =>
        /\ SeqMax(y_bc) # SeqMin(y_bc) =>
              /\ \E i \in 1..Len(r.num) : IsZeroAt(r, i)
              /\ \E i \in 1..Len(r.num) : IsOneAt(r, i)
              /\ \A i \in 1..Len(r.num) : InUnitInterval(r, i)
        /\ SeqMax(y_bc) = SeqMin(y_bc) =>
              \A i \in 1..Len(r.num) : IsZeroAt(r, i)

\* C10: under minmax normalization a signal whose max differs from its min comes
\* out with minimum exactly 0, maximum exactly 1 and every value in [0,1]; a signal
\* whose max equals its min comes out all zeros; in both preprocessing paths.
C10_MinmaxBothPaths == MinmaxContract(y_norm.array) /\ MinmaxContract(y_norm.csv)

(***************************************************************************)
(* SpecFeatures: one call of extract_raman_features                        *)
(***************************************************************************)
MaxLevel == 3       \* intensity levels 0..MaxLevel
MaxPeaks == 2       \* max_peaks ranges over 0..MaxPeaks
MaxFeatExtra == 0   \* points beyond the minimum of 10

PeakSlots == {2, 4, 6, 8}

\* intensities: a level at each of four slots, a common floor elsewhere
YWith(n, heights, floor) ==
    [i \in 1..n |-> IF i \in PeakSlots /\ i <= n THEN heights[i \div 2] ELSE floor]

InitFeatures ==
    /\ \E n \in (MinFeatLen - 1)..(MinFeatLen + MaxFeatExtra),
          heights \in [1..4 -> 0..MaxLevel], floor \in {0, 1},
          short \in BOOLEAN, mp \in 0..MaxPeaks, pct \in {2, 50}, scipy \in BOOLEAN :
          feat_in = [x |-> [i \in 1..(IF short THEN n - 1 ELSE n) |-> 10 * i],
                     y |-> YWith(n, heights, floor),
                     max_peaks |-> mp, peak_prominence |-> pct, scipy |-> scipy]
    /\ feats = Idle
    /\ IdleClassify /\ IdlePreprocess /\ IdleNormalize /\ IdleBuild /\ IdleService

Extract ==
    /\ feats = Idle
    /\ feats' \in extract_raman_features(feat_in)
    /\ UNCHANGED <<feat_in, classifyVars, preprocessVars, normalizeVars, buildVars, serviceVars>>

NextFeatures == Extract

SpecFeatures == InitFeatures /\ [][NextFeatures]_vars

ValidFeatureInput == Len(feat_in.x) = Len(feat_in.y) /\ Len(feat_in.x) >= 10

\* the peaks of the input: interior samples above both neighbours (the slots make
\* every run of equal values at a peak one sample long)
StrictPeaks == {p \in 2..(Len(feat_in.y) - 1) :
                   feat_in.y[p - 1] < feat_in.y[p] /\ feat_in.y[p + 1] < feat_in.y[p]}

\* C7: on every valid input and every max_peaks the returned vector has exactly
\* 17 + 3*max_peaks components, however many peaks are detected; when peak detection
\* is unavailable peak_count and all 3*max_peaks peak fields are zero.
C7_FixedLength ==
    feats # Idle =>
        /\ ValidFeatureInput =>
              /\ feats.status = "ok"
              /\ Len(feats.vec) = 17 + 3 * feat_in.max_peaks
        /\ (ValidFeatureInput /\ ~feat_in.scipy) =>
              \A i \in 17..Len(feats.vec) : feats.vec[i].num = 0

\* more peaks detected than max_peaks slots
C7_Witness ==
    /\ feats # Idle /\ feats.status = "ok" /\ feat_in.scipy
    /\ feat_in.max_peaks = 2
    /\ feats.vec[17].num = 3
    /\ Cardinality(StrictPeaks) = 3

Detected == find_peaks(feat_in.y, feat_in.peak_prominence).peaks

Retained == IF feat_in.max_peaks < Len(Detected) THEN feat_in.max_peaks ELSE Len(Detected)

PositionSlot(i) == feats.vec[17 + i]

HeightSlot(i) == feats.vec[17 + feat_in.max_peaks + i]

ProminenceSlot(i) == feats.vec[17 + 2 * feat_in.max_peaks + i]

\* slot i holds the position, the height and the prominence of the detected peak p
SlotHoldsPeak(i, p) ==
    /\ PositionSlot(i) = Val(feat_in.x[p], 1)
    /\ HeightSlot(i) = Val(feat_in.y[p], 1)
    /\ ProminenceSlot(i) = Val(Prominence(feat_in.y, p), 1)

\* C11: the retained peaks are the min(max_peaks, detected) highest peaks in
\* descending height order; position, height and prominence of a retained slot all
\* belong to one detected peak; the slots beyond the retained peaks are zero in all
\* three blocks.
C11_SlotsAligned ==
    (feats # Idle /\ feats.status = "ok" /\ feat_in.scipy) =>
        /\ \A i \in 1..Retained :
              \E k \in 1..Len(Detected) : SlotHoldsPeak(i, Detected[k])
        /\ \A i \in 1..(Retained - 1) : HeightSlot(i).num >= HeightSlot(i + 1).num
        /\ \A i, j \in 1..Retained : i # j => PositionSlot(i) # PositionSlot(j)
        /\ \A k \in 1..Len(Detected) :
              (\A i \in 1..Retained : PositionSlot(i) # Val(feat_in.x[Detected[k]], 1)) =>
                  \A i \in 1..Retained : HeightSlot(i).num >= feat_in.y[Detected[k]]
        /\ \A i \in (Retained + 1)..feat_in.max_peaks :
              PositionSlot(i) = Zero /\ HeightSlot(i) = Zero /\ ProminenceSlot(i) = Zero

(***************************************************************************)
(* SpecBuild: prototypes built from one reference dataset                  *)
(***************************************************************************)
MaxSamples == 3    \* samples of the reference dataset

\* raw feature vectors; their norms are 0, 2 and 5
FeatureRows == {<<2, 0>>, <<0, 2>>, <<0, 0>>, <<3, 4>>, <<-2, 0>>}

InitBuild ==
    /\ \E n \in 0..MaxSamples :
          \E X \in [1..n -> FeatureRows], y \in [1..n -> 1..2] :
              dataset = [X_feat |-> X, y |-> y]
    /\ payload = [file |-> Idle, by_label |-> Idle]
    /\ IdleClassify /\ IdlePreprocess /\ IdleNormalize /\ IdleFeatures /\ IdleService

BuildPrototypes ==
    /\ payload.file = Idle
    /\ payload' = [payload EXCEPT !.file = build_prototypes(dataset)]
    /\ UNCHANGED <<dataset, classifyVars, preprocessVars, normalizeVars, featureVars, serviceVars>>

BuildClassPrototypes ==
    /\ payload.by_label = Idle
    /\ payload' = [payload EXCEPT !.by_label = build_class_prototypes(dataset)]
    /\ UNCHANGED <<dataset, classifyVars, preprocessVars, normalizeVars, featureVars, serviceVars>>

NextBuild == BuildPrototypes \/ BuildClassPrototypes

SpecBuild == InitBuild /\ [][NextBuild]_vars

LabelSum(lab, c) ==
    SumSeq([i \in 1..Len(dataset.y) |->
              IF dataset.y[i] = lab THEN dataset.X_feat[i][c] ELSE 0])

\* v is the L2-normalization of the mean of the label's raw vectors: the zero
\* vector when they sum to zero, else the unit vector along their sum
IsNormalizedMean(v, lab) ==
    IF \A c \in 1..2 : LabelSum(lab, c) = 0
    THEN \A c \in 1..2 : v.num[c] = 0
    ELSE /\ l2_norm_sq(v.num) = v.den * v.den * v.rad
         /\ v.num[1] * LabelSum(lab, 2) = v.num[2] * LabelSum(lab, 1)
         /\ v.num[1] * LabelSum(lab, 1) + v.num[2] * LabelSum(lab, 2) > 0

OnePerLabel(protos) ==
    /\ \A i \in 1..Len(dataset.y) :
          Cardinality({k \in 1..Len(protos) : protos[k].label = dataset.y[i]}) = 1
    /\ \A k \in 1..Len(protos) : \E i \in 1..Len(dataset.y) : dataset.y[i] = protos[k].label

BuiltRight(r) ==
    (r # Idle /\ r.status = "ok") =>
        /\ OnePerLabel(r.prototypes)
        /\ \A k \in 1..Len(r.prototypes) :
              IsNormalizedMean(r.prototypes[k].vec, r.prototypes[k].label)

\* C8: the prototype stored for a label is the L2-normalization of the arithmetic
\* mean of that label's raw feature vectors, normalized once after averaging; the
\* prototype set has exactly one entry per label of the dataset.
C8_NormalizedMeanPerLabel ==
    /\ BuiltRight(payload.file)
    /\ BuiltRight(payload.by_label)
    /\ (payload.file # Idle /\ Len(dataset.y) > 0) => payload.file.status = "ok"

\* the example of the specification: [2,0] and [0,2] under one label give [1,1]/sqrt(2)
C8_Witness ==
    /\ dataset = [X_feat |-> <<<<2, 0>>, <<0, 2>>>>, y |-> <<1, 1>>]
    /\ payload.file # Idle /\ payload.file.status = "ok"
    /\ payload.file.prototypes[1].vec.num[1] = payload.file.prototypes[1].vec.num[2]
    /\ 2 * payload.file.prototypes[1].vec.num[1] * payload.file.prototypes[1].vec.num[1]
          = payload.file.prototypes[1].vec.den * payload.file.prototypes[1].vec.den
              * payload.file.prototypes[1].vec.rad

(***************************************************************************)
(* SpecService: the import-time load of ml/prototypes_store.py, then       *)
(* analyze requests served by main.py                                      *)
(***************************************************************************)
MaxRequests == 2    \* analyze requests

Absent == [exists |-> FALSE, prototypes |-> <<>>]

\* prototypes.json: absent, or holding the mapping "prototypes"
FileChoices ==
    {Absent} \cup
    {[exists |-> TRUE, prototypes |-> d] :
        d \in {<<>>,
               <<[label |-> 1, vec |-> <<1, 0>>]>>,
               <<[label |-> 1, vec |-> <<1, 0>>], [label |-> 2, vec |-> <<0, 1>>]>>,
               <<[label |-> 2, vec |-> <<1, 0>>], [label |-> 1, vec |-> <<1, 0>>]>>}}

RequestFeatures == {<<1, 0>>, <<1>>}

NoRequest == [pc |-> "none"]

InitService ==
    /\ proto_file \in FileChoices
    /\ out = <<>>
    /\ PROTOTYPES = <<>>
    /\ main_PROTOTYPES = <<>>
    /\ boot = "import_store"
    /\ requests = [r \in 1..MaxRequests |-> NoRequest]
    /\ IdleClassify /\ IdlePreprocess /\ IdleNormalize /\ IdleFeatures /\ IdleBuild

otherVars == <<classifyVars, preprocessVars, normalizeVars, featureVars, buildVars>>

\* line 6: PROTOTYPES = {}
StoreInit ==
    /\ boot = "import_store"
    /\ PROTOTYPES' = <<>>
    /\ boot' = "load"
    /\ UNCHANGED <<proto_file, out, main_PROTOTYPES, requests, otherVars>>

\* lines 9-19: no file, return {}; else read it and start from out = {}
LoadOpen ==
    /\ boot = "load"
    /\ out' = <<>>
    /\ boot' = IF proto_file.exists /\ Len(proto_file.prototypes) > 0 THEN "fill" ELSE "publish"
    /\ UNCHANGED <<proto_file, PROTOTYPES, main_PROTOTYPES, requests, otherVars>>

\* mutant: the loop fills the published mapping itself
GlobalAfterEntry_in_place(P, filled) == filled

\* lines 20-21 assign into the local dict out: the module global is not touched
GlobalAfterEntry(P, filled) == P

LoadEntry ==
    /\ boot = "fill"
    /\ out' = Append(out, proto_file.prototypes[Len(out) + 1])
    /\ PROTOTYPES' = GlobalAfterEntry(PROTOTYPES, out')
    /\ boot' = IF Len(out') = Len(proto_file.prototypes) THEN "publish" ELSE "fill"
    /\ UNCHANGED <<proto_file, main_PROTOTYPES, requests, otherVars>>

\* line 26: PROTOTYPES = load_prototypes()
Publish ==
    /\ boot = "publish"
    /\ PROTOTYPES' = out
    /\ boot' = "import_main"
    /\ UNCHANGED <<proto_file, out, main_PROTOTYPES, requests, otherVars>>

\* main.py line 13: from app.ml.prototypes_store import PROTOTYPES
MainImport ==
    /\ boot = "import_main"
    /\ main_PROTOTYPES' = PROTOTYPES
    /\ boot' = "serving"
    /\ UNCHANGED <<proto_file, out, PROTOTYPES, requests, otherVars>>

\* analyze up to its only suspension point, await spectrum.read(): the file name
\* checks of lines 58-59 come before it
AnalyzeStart(r) ==
    /\ boot = "serving"
    /\ requests[r].pc = "none"
    /\ \E fault \in UploadFaults, fv \in RequestFeatures :
          requests' = [requests EXCEPT ![r] =
              IF fault \in {"csv_name", "image_name"}
              THEN [pc |-> "done", fault |-> fault, features |-> fv,
                    checked |-> <<>>, scored |-> <<>>,
                    response |-> analyze(fault, fv, main_PROTOTYPES)]
              ELSE [pc |-> "reading", fault |-> fault, features |-> fv]]
    /\ UNCHANGED <<proto_file, out, PROTOTYPES, main_PROTOTYPES, boot, otherVars>>

\* the rest of analyze runs without suspension: the emptiness test of line 89 and
\* the call of line 90 read the same name
AnalyzeFinish(r) ==
    /\ requests[r].pc = "reading"
    /\ requests' = [requests EXCEPT ![r] =
          [pc |-> "done", fault |-> requests[r].fault, features |-> requests[r].features,
           checked |-> main_PROTOTYPES, scored |-> main_PROTOTYPES,
           response |-> analyze(requests[r].fault, requests[r].features, main_PROTOTYPES)]]
    /\ UNCHANGED <<proto_file, out, PROTOTYPES, main_PROTOTYPES, boot, otherVars>>

NextService ==
    \/ StoreInit
    \/ LoadOpen
    \/ LoadEntry
    \/ Publish
    \/ MainImport
    \/ \E r \in 1..MaxRequests : AnalyzeStart(r)
    \/ \E r \in 1..MaxRequests : AnalyzeFinish(r)

SpecService == InitService /\ [][NextService]_vars

\* the mapping the file holds, empty when there is no file
FileMapping == IF proto_file.exists THEN proto_file.prototypes ELSE <<>>

\* C9: the published prototype set is never a partly filled one: the store's global
\* is the empty mapping until the load publishes the complete mapping in one step,
\* and every analyze request tests and scores against one and the same complete set.
C9_AtomicPublication ==
    /\ PROTOTYPES \in {<<>>, FileMapping}
    /\ main_PROTOTYPES \in {<<>>, FileMapping}
    /\ boot = "serving" => (PROTOTYPES = FileMapping /\ main_PROTOTYPES = FileMapping)
    /\ \A r \in 1..MaxRequests :
          (requests[r].pc = "done" /\ requests[r].fault \notin {"csv_name", "image_name"}) =>
              /\ requests[r].checked = requests[r].scored
              /\ requests[r].scored = FileMapping
              /\ (requests[r].response.status = "success" /\ Len(FileMapping) > 0) =>
                    Len(requests[r].response.all_scores) = Len(FileMapping)

\* two requests in flight over a two-entry mapping, one of them scored
C9_Witness ==
    /\ boot = "serving"
    /\ Len(FileMapping) = 2
    /\ requests[1].pc = "done" /\ requests[1].fault = "none"
    /\ requests[1].response.status = "success"
    /\ Len(requests[1].response.all_scores) = 2
    /\ requests[2].pc = "reading"

====
